---- MODULE Spec2Model ----
(***************************************************************************)
(* Model of script.py: the converter from a combined endpoint YAML         *)
(* document to sectioned Markdown tables.                                  *)
(*                                                                         *)
(* Text is modelled as a sequence of Unicode code points, so that string   *)
(* comparison, upper-casing, backtick replacement and the joins that       *)
(* assemble the document are computed, not assumed.  Python's None is the  *)
(* one-element sequence None (its element is not a code point).            *)
(***************************************************************************)
EXTENDS Integers, Sequences, FiniteSets, TLC

VARIABLES
  pc,            \* position of main: start, read, parsed, built, rendered, done
  args,          \* parsed command line: [no_sort, output]
  stream,        \* text read from the input, as what yaml.safe_load makes of it
  yaml_map,      \* parsed top-level mapping
  sections,      \* result of build_rows: ordered mapping name -> rows
  section_names, \* section names in output order
  out_parts,     \* list of rendered section texts (and separators)
  output_text,   \* final document
  stdout,        \* text written to standard output (None: nothing written)
  outfile,       \* text written to the output file (None: never opened)
  stderr,        \* diagnostics printed to the error stream
  status,        \* return value of main (NotReturned until it returns)
  value,         \* argument of a direct call of sanitize_code_span
  result         \* results of that call and of the call on its result

vars == <<pc, args, stream, yaml_map, sections, section_names, out_parts,
          output_text, stdout, outfile, stderr, status, value, result>>

(***************************************************************************)
(* Bounds of the explored inputs.                                          *)
(***************************************************************************)
MaxPaths == 2
MaxMethods == 2
MaxLen == 3
MaxFieldLen == 2

(***************************************************************************)
(* Code points.                                                            *)
(***************************************************************************)
BACKTICK == 96
PRIME == 8242
PIPE == 124
NEWLINE == 10

None == << -1 >>
NotReturned == << >>

RECURSIVE Concat(_)
\* concatenation of a sequence of texts
Concat(parts) ==
  IF parts = << >> THEN << >> ELSE Head(parts) \o Concat(Tail(parts))

RECURSIVE Join(_, _)
\* sep.join(parts)
Join(sep, parts) ==
  IF parts = << >> THEN << >>
  ELSE IF Len(parts) = 1 THEN parts[1]
  ELSE parts[1] \o sep \o Join(sep, Tail(parts))

\* Python's < on str: code-point lexicographic, a proper prefix is smaller
StrLess(a, b) ==
  \E i \in 1..Len(b) :
     /\ \A j \in 1..(i - 1) : j <= Len(a) /\ a[j] = b[j]
     /\ (i > Len(a) \/ a[i] < b[i])

\* str.upper() on the ASCII range
Upper(s) == [i \in 1..Len(s) |-> IF s[i] >= 97 /\ s[i] <= 122 THEN s[i] - 32 ELSE s[i]]

\* number of occurrences of code point c in text s
Count(c, s) == Cardinality({i \in 1..Len(s) : s[i] = c})

S_GET == <<71, 69, 84>>
S_POST == <<80, 79, 83, 84>>
S_PUT == <<80, 85, 84>>
S_DELETE == <<68, 69, 76, 69, 84, 69>>
S_PATCH == <<80, 65, 84, 67, 72>>
S_HEAD == <<72, 69, 65, 68>>
S_OPTIONS == <<79, 80, 84, 73, 79, 78, 83>>

METHOD_ORDER == <<S_GET, S_POST, S_PUT, S_DELETE, S_PATCH, S_HEAD, S_OPTIONS>>

S_Yes == <<89, 101, 115>>
S_No == <<78, 111>>
S_Uncategorized == <<85, 110, 99, 97, 116, 101, 103, 111, 114, 105, 122, 101, 100>>
S_HeadingPrefix == <<35, 35, 35, 32>>
S_CommaSpace == <<44, 32>>
S_CellSep == <<32, 124, 32>>
S_RowOpen == <<124, 32>>
S_RowClose == <<32, 124>>

\* the header row of every table
HEADER_ROW ==
  <<
    124, 32, 80, 97, 116, 104, 32, 124, 32, 77, 101, 116, 104, 111, 100, 32,
    124, 32, 82, 101, 103, 105, 111, 110, 45, 97, 119, 97, 114, 101, 32,
    124, 32, 65, 98, 115, 111, 108, 117, 116, 101, 32, 124, 32, 79, 119,
    110, 101, 114, 32, 124, 32, 69, 110, 100, 112, 111, 105, 110, 116, 32,
    78, 97, 109, 101, 32, 124, 32, 67, 108, 97, 115, 115, 32, 40, 105, 110,
    32, 98, 97, 99, 107, 101, 110, 100, 41, 32, 124, 32, 76, 111, 99, 97,
    116, 105, 111, 110, 115, 32, 117, 115, 101, 100, 32, 40, 105, 110, 32,
    67, 76, 73, 41, 32, 124, 32, 78, 111, 116, 101, 115, 32, 124
  >>

\* the delimiter row of every table
DELIMITER_ROW ==
  <<
    124, 32, 45, 45, 45, 45, 32, 124, 32, 45, 45, 45, 45, 45, 45, 32, 124,
    32, 45, 45, 45, 45, 45, 45, 45, 45, 45, 45, 45, 45, 32, 124, 32, 45, 45,
    45, 45, 45, 45, 45, 45, 32, 124, 32, 45, 45, 45, 45, 45, 32, 124, 32,
    45, 45, 45, 45, 45, 45, 45, 45, 45, 45, 45, 45, 45, 32, 124, 32, 45, 45,
    45, 45, 45, 45, 45, 45, 45, 45, 45, 45, 45, 45, 45, 45, 45, 45, 45, 32,
    124, 32, 45, 45, 45, 45, 45, 45, 45, 45, 45, 45, 45, 45, 45, 45, 45, 45,
    45, 45, 45, 45, 45, 45, 45, 32, 124, 32, 45, 45, 45, 45, 45, 32, 124
  >>

bool_to_yesno(val) == IF val THEN S_Yes ELSE S_No

\* variant: only the first backtick is replaced
sanitize_code_span_first_only(v) ==
  IF v = None THEN << >>
  ELSE [i \in 1..Len(v) |->
          IF v[i] = BACKTICK /\ (\A j \in 1..(i - 1) : v[j] # BACKTICK)
          THEN PRIME ELSE v[i]]

sanitize_code_span(v) ==
  IF v = None THEN << >>
  ELSE [i \in 1..Len(v) |-> IF v[i] = BACKTICK THEN PRIME ELSE v[i]]

\* truth value of a str-or-None value (None and "" are falsy)
Truthy(v) == v # None /\ Len(v) > 0

RECURSIVE sanitize_parts(_)
\* the list built by the loop of normalize_locations over a sequence
sanitize_parts(items) ==
  IF items = << >> THEN << >>
  ELSE IF Head(items) = None THEN sanitize_parts(Tail(items))
  ELSE <<sanitize_code_span(Head(items))>> \o sanitize_parts(Tail(items))

\* loc is [kind, text, items]: null; str (text is the string); list (items
\* is the sequence of str-or-None elements); other (text is str(loc))
normalize_locations(loc) ==
  IF loc.kind = "null" THEN None
  ELSE IF loc.kind = "str" THEN sanitize_code_span(loc.text)
  ELSE IF loc.kind = "list" THEN
    LET parts == sanitize_parts(loc.items)
    IN  IF parts # << >> THEN Join(S_CommaSpace, parts) ELSE None
  ELSE sanitize_code_span(loc.text)

\* METHOD_ORDER.index(m), counted from 0
OrderIndex(m) == (CHOOSE i \in 1..Len(METHOD_ORDER) : METHOD_ORDER[i] = m) - 1

\* variant: methods outside the list get the first rank, not the last
method_sort_key_unlisted_first(method) ==
  LET m == Upper(method)
  IN  IF \E i \in 1..Len(METHOD_ORDER) : METHOD_ORDER[i] = m
      THEN <<OrderIndex(m), << >> >>
      ELSE <<0 - 1, m>>

method_sort_key(method) ==
  LET m == Upper(method)
  IN  IF \E i \in 1..Len(METHOD_ORDER) : METHOD_ORDER[i] = m
      THEN <<OrderIndex(m), << >> >>
      ELSE <<Len(METHOD_ORDER), m>>

\* the key of sorted() in render_section: (path, method_sort_key(method))
row_sort_key(r) == <<r.path, method_sort_key(r.method)>>

\* Python's < on the tuples produced by row_sort_key
KeyLess(k1, k2) ==
  \/ StrLess(k1[1], k2[1])
  \/ /\ k1[1] = k2[1]
     /\ \/ k1[2][1] < k2[2][1]
        \/ k1[2][1] = k2[2][1] /\ StrLess(k1[2][2], k2[2][2])

RECURSIVE InsertRow(_, _)
\* r placed after every row whose key is not greater (stable insertion)
InsertRow(r, sorted) ==
  IF sorted = << >> THEN <<r>>
  ELSE IF KeyLess(row_sort_key(r), row_sort_key(Head(sorted)))
       THEN <<r>> \o sorted
       ELSE <<Head(sorted)>> \o InsertRow(r, Tail(sorted))

RECURSIVE SortedFrom(_, _)
SortedFrom(rows, acc) ==
  IF rows = << >> THEN acc
  ELSE SortedFrom(Tail(rows), InsertRow(Head(rows), acc))

\* sorted(rows, key=...): the stable sort by row_sort_key
sort_rows(rows) == SortedFrom(rows, << >>)

RECURSIVE InsertName(_, _)
InsertName(n, sorted) ==
  IF sorted = << >> THEN <<n>>
  ELSE IF StrLess(n, Head(sorted)) THEN <<n>> \o sorted
       ELSE <<Head(sorted)>> \o InsertName(n, Tail(sorted))

RECURSIVE SortedNamesFrom(_, _)
SortedNamesFrom(names, acc) ==
  IF names = << >> THEN acc
  ELSE SortedNamesFrom(Tail(names), InsertName(Head(names), acc))

\* sorted(section_names)
sort_names(names) == SortedNamesFrom(names, << >>)

(***************************************************************************)
(* build_rows.  A document is a sequence of [path, meta] in mapping order. *)
(* meta is [kind, section, absolute, owner, name, class, methods]; kind    *)
(* "map" is a mapping, anything else is not.  methods is [kind, len,       *)
(* items]: absent, null, map (items: sequence of [key, meta]), str or      *)
(* list, len being the length of a str or list.  A method's meta is        *)
(* [kind, region_aware, notes, locations].                                 *)
(***************************************************************************)
EmptyMethods == [kind |-> "map", len |-> 0, items |-> << >>]

\* truth value of the value returned by meta.get("methods")
MethodsTruthy(m) ==
  \/ m.kind = "map" /\ Len(m.items) > 0
  \/ m.kind \in {"str", "list"} /\ m.len > 0

\* variant: only an absent section falls back to the default
section_name_of_absent_only(meta) ==
  LET endpoint_section == IF meta.kind = "map" THEN meta.section ELSE None
  IN  IF endpoint_section # None THEN endpoint_section ELSE S_Uncategorized

\* endpoint_section or "Uncategorized"
section_name_of(meta) ==
  LET endpoint_section == IF meta.kind = "map" THEN meta.section ELSE None
  IN  IF Truthy(endpoint_section) THEN endpoint_section ELSE S_Uncategorized

\* methods = meta.get("methods") or {}, {} when meta is not a mapping
methods_of(meta) ==
  IF meta.kind = "map"
  THEN IF MethodsTruthy(meta.methods) THEN meta.methods ELSE EmptyMethods
  ELSE EmptyMethods

\* variant: the section's list is replaced by the new row, not extended
append_row_overwrite(secs, name, row) ==
  IF \E i \in 1..Len(secs) : secs[i].name = name
  THEN [i \in 1..Len(secs) |->
          IF secs[i].name = name THEN [name |-> name, rows |-> <<row>>]
          ELSE secs[i]]
  ELSE Append(secs, [name |-> name, rows |-> <<row>>])

\* sections.setdefault(name, []).append(row)
append_row(secs, name, row) ==
  IF \E i \in 1..Len(secs) : secs[i].name = name
  THEN [i \in 1..Len(secs) |->
          IF secs[i].name = name
          THEN [name |-> name, rows |-> Append(secs[i].rows, row)]
          ELSE secs[i]]
  ELSE Append(secs, [name |-> name, rows |-> <<row>>])

\* the row built for one method entry of a path
make_row(path, meta, method, method_meta) ==
  [path          |-> path,
   method        |-> method,
   region_aware  |-> method_meta.region_aware,
   absolute      |-> IF meta.kind = "map" THEN meta.absolute ELSE FALSE,
   owner         |-> IF meta.kind = "map" THEN meta.owner ELSE None,
   endpoint_name |-> IF meta.kind = "map" THEN meta.name ELSE None,
   backend_class |-> IF meta.kind = "map" THEN meta.class ELSE None,
   locations     |-> normalize_locations(method_meta.locations),
   notes         |-> IF Truthy(method_meta.notes) THEN method_meta.notes ELSE << >>]

\* whether the inner loop skips the entry silently (method_raw is None)
skips_key(entry) == entry.key = None

RECURSIVE build_methods(_, _, _, _)
\* the inner loop of build_rows; acc is [sections, err]
build_methods(path, meta, entries, acc) ==
  IF entries = << >> THEN acc
  ELSE
    LET e == Head(entries)
        method == Upper(e.key)
    IN  IF skips_key(e) THEN build_methods(path, meta, Tail(entries), acc)
        ELSE IF e.meta.kind # "map"
        THEN build_methods(path, meta, Tail(entries),
               [acc EXCEPT !.err = Append(@, [what |-> "method", path |-> path,
                                              method |-> method])])
        ELSE build_methods(path, meta, Tail(entries),
               [acc EXCEPT !.sections =
                  append_row(@, section_name_of(meta),
                             make_row(path, meta, method, e.meta))])

RECURSIVE build_paths(_, _)
\* the outer loop of build_rows
build_paths(doc, acc) ==
  IF doc = << >> THEN acc
  ELSE
    LET path == Head(doc).path
        meta == Head(doc).meta
        methods == methods_of(meta)
    IN  IF methods.kind # "map"
        THEN build_paths(Tail(doc),
               [acc EXCEPT !.err = Append(@, [what |-> "path", path |-> path,
                                              method |-> None])])
        ELSE build_paths(Tail(doc), build_methods(path, meta, methods.items, acc))

build_rows(doc) == build_paths(doc, [sections |-> << >>, err |-> << >>])

(***************************************************************************)
(* render_section.                                                         *)
(***************************************************************************)
code_span(text) == <<BACKTICK>> \o text \o <<BACKTICK>>

\* variant: the owner cell is left out
row_cells_without_owner(r) ==
  << code_span(sanitize_code_span(r.path)),
     code_span(sanitize_code_span(r.method)),
     bool_to_yesno(r.region_aware),
     bool_to_yesno(r.absolute),
     IF Truthy(r.endpoint_name)
       THEN code_span(sanitize_code_span(r.endpoint_name)) ELSE << >>,
     IF Truthy(r.backend_class)
       THEN code_span(sanitize_code_span(r.backend_class)) ELSE << >>,
     IF Truthy(r.locations) THEN code_span(r.locations) ELSE << >>,
     IF Truthy(r.notes) THEN r.notes ELSE << >> >>

\* the nine cells of one data row, in column order
row_cells(r) ==
  << code_span(sanitize_code_span(r.path)),
     code_span(sanitize_code_span(r.method)),
     bool_to_yesno(r.region_aware),
     bool_to_yesno(r.absolute),
     IF Truthy(r.owner) THEN code_span(sanitize_code_span(r.owner)) ELSE << >>,
     IF Truthy(r.endpoint_name)
       THEN code_span(sanitize_code_span(r.endpoint_name)) ELSE << >>,
     IF Truthy(r.backend_class)
       THEN code_span(sanitize_code_span(r.backend_class)) ELSE << >>,
     IF Truthy(r.locations) THEN code_span(r.locations) ELSE << >>,
     IF Truthy(r.notes) THEN r.notes ELSE << >> >>

\* the f-string of one data row
row_line(r) == S_RowOpen \o Join(S_CellSep, row_cells(r)) \o S_RowClose

\* the lines of a section whose rows are already in output order
section_lines(section, rows_sorted) ==
  << S_HeadingPrefix \o section, << >>, HEADER_ROW, DELIMITER_ROW >>
  \o [i \in 1..Len(rows_sorted) |-> row_line(rows_sorted[i])]

render_rows(section, rows_sorted) ==
  Join(<<NEWLINE>>, section_lines(section, rows_sorted))

render_section(section, rows) == render_rows(section, sort_rows(rows))

(***************************************************************************)
(* parse_yaml and main.                                                    *)
(***************************************************************************)
\* stream is [kind, doc]: invalid (yaml.safe_load raises), other (it
\* returns a sequence, a scalar or null) or map (it returns the mapping doc)
parse_yaml(text) ==
  IF text.kind = "map" THEN [ok |-> TRUE, data |-> text.doc]
  ELSE [ok |-> FALSE, data |-> << >>]

\* sections[sec]
rows_of(secs, sec) ==
  (CHOOSE x \in {secs[i] : i \in 1..Len(secs)} : x.name = sec).rows

RECURSIVE parts_loop(_, _, _)
\* the loop of main that fills out_parts; first holds while acc is empty
parts_loop(names, secs, acc) ==
  IF names = << >> THEN acc
  ELSE
    LET sec == Head(names)
        first == acc = << >>
        sep == IF ~first THEN << << >> >> ELSE << >>
    IN  parts_loop(Tail(names), secs,
                   acc \o sep \o <<render_section(sec, rows_of(secs, sec))>>)

\* "\n\n".join(out_parts) + "\n"
join_document(parts) == Join(<<NEWLINE, NEWLINE>>, parts) \o <<NEWLINE>>

\* variant: the test of the flag is inverted
order_sections_inverted(secs, no_sort) ==
  LET keys == [i \in 1..Len(secs) |-> secs[i].name]
  IN  IF no_sort THEN sort_names(keys) ELSE keys

\* list(sections.keys()), sorted unless --no-sort
order_sections(secs, no_sort) ==
  LET keys == [i \in 1..Len(secs) |-> secs[i].name]
  IN  IF ~no_sort THEN sort_names(keys) ELSE keys

Diag(what, path, method) == [what |-> what, path |-> path, method |-> method]

(***************************************************************************)
(* Input documents.  Three families are explored: documents of up to       *)
(* MaxPaths paths spread over several sections, one-path documents whose   *)
(* methods value takes every shape (mappings of up to MaxMethods entries), *)
(* and one-row documents in which one field is any text of up to           *)
(* MaxFieldLen code points.                                                *)
(***************************************************************************)
Alphabet == {97, BACKTICK, PRIME, PIPE, NEWLINE}
Strs == UNION {[1..k -> Alphabet] : k \in 0..MaxLen}
FieldStrs == UNION {[1..k -> Alphabet] : k \in 0..MaxFieldLen}

P_a == <<47, 97>>
P_b == <<47, 98>>
P_ab == <<47, 97, 47, 98>>
Paths == {P_a, P_b, P_ab}

K_get == <<103, 101, 116>>
K_post == <<112, 111, 115, 116>>
K_abc == <<97, 98, 99>>
K_zap == <<122, 97, 112>>
S_x == <<120>>
S_A == <<65>>
S_Z == <<90>>

Locations(k, text, items) == [kind |-> k, text |-> text, items |-> items]
NoLocations == Locations("null", << >>, << >>)
MethodMeta(k, ra, notes, loc) ==
  [kind |-> k, region_aware |-> ra, notes |-> notes, locations |-> loc]
PlainMethod == MethodMeta("map", FALSE, None, NoLocations)
NotAMapping == MethodMeta("str", FALSE, None, NoLocations)
Entry(k, m) == [key |-> k, meta |-> m]
MethodMap(entries) == [kind |-> "map", len |-> Len(entries), items |-> entries]
NotAMap(k, n) == [kind |-> k, len |-> n, items |-> << >>]
PathMeta(sec, abs, owner, name, class, methods) ==
  [kind |-> "map", section |-> sec, absolute |-> abs, owner |-> owner,
   name |-> name, class |-> class, methods |-> methods]
NullMeta ==
  [kind |-> "null", section |-> None, absolute |-> FALSE, owner |-> None,
   name |-> None, class |-> None, methods |-> NotAMap("absent", 0)]
Item(p, m) == [path |-> p, meta |-> m]

DistinctBy(f, n) == \A i, j \in 1..n : i # j => f[i] # f[j]

\* family 1
MethodsA ==
  { MethodMap(<<Entry(K_get, PlainMethod)>>),
    MethodMap(<<Entry(K_post, PlainMethod), Entry(K_get, PlainMethod)>>) }
MetasA ==
  {NullMeta, PathMeta(S_A, FALSE, None, None, None, NotAMap("str", 1))} \cup
  {PathMeta(sec, FALSE, None, None, None, m) : sec \in {None, S_A, S_Z}, m \in MethodsA}
DocsA ==
  UNION { {d \in [1..k -> {Item(p, m) : p \in Paths, m \in MetasA}] :
             DistinctBy([i \in 1..k |-> d[i].path], k)} : k \in 0..MaxPaths }

\* family 2
KeysB == {None, K_get, S_GET, K_post, K_abc, K_zap}
EntriesB ==
  {Entry(key, PlainMethod) : key \in KeysB}
  \cup { Entry(K_get, NotAMapping), Entry(None, NotAMapping),
         Entry(S_GET, MethodMeta("map", TRUE, None, NoLocations)) }
MapsB ==
  UNION { {e \in [1..k -> EntriesB] : DistinctBy([i \in 1..k |-> e[i].key], k)} :
          k \in 0..MaxMethods }
MethodsB ==
  { NotAMap("absent", 0), NotAMap("null", 0), NotAMap("list", 0),
    NotAMap("list", 1), NotAMap("str", 0), NotAMap("str", 1) }
  \cup {MethodMap(e) : e \in MapsB}
DocsB ==
  { <<Item(P_a, PathMeta(sec, FALSE, None, None, None, m))>> :
      sec \in {<< >>, S_A}, m \in MethodsB }

\* family 3
LocationsC ==
  { Locations("list", << >>, << >>),
    Locations("list", << >>, <<None>>),
    Locations("list", << >>, <<None, S_x>>),
    Locations("list", << >>, <<<<97, BACKTICK, 98>>, <<99>>>>),
    Locations("other", <<53>>, << >>) }
OneRow(p, sec, abs, owner, name, class, ra, notes, loc) ==
  <<Item(p, PathMeta(sec, abs, owner, name, class,
           MethodMap(<<Entry(K_get, MethodMeta("map", ra, notes, loc))>>)))>>
DocsC ==
  {OneRow(t, None, FALSE, None, None, None, FALSE, None, NoLocations) : t \in FieldStrs}
  \cup {OneRow(P_a, t, TRUE, None, None, None, FALSE, None, NoLocations) : t \in FieldStrs}
  \cup {OneRow(P_a, None, FALSE, t, None, None, TRUE, None, NoLocations) : t \in FieldStrs}
  \cup {OneRow(P_a, None, FALSE, None, t, None, FALSE, None, NoLocations) : t \in FieldStrs}
  \cup {OneRow(P_a, None, FALSE, None, None, t, FALSE, None, NoLocations) : t \in FieldStrs}
  \cup {OneRow(P_a, None, FALSE, None, None, None, FALSE, t, NoLocations) : t \in FieldStrs}
  \cup {OneRow(P_a, None, FALSE, None, None, None, FALSE, None,
               Locations("str", t, << >>)) : t \in FieldStrs}
  \cup {OneRow(P_a, None, FALSE, None, None, None, FALSE, None, l) : l \in LocationsC}

Docs == DocsA \cup DocsB \cup DocsC

Streams ==
  { [kind |-> "invalid", doc |-> << >>], [kind |-> "other", doc |-> << >>] }
  \cup {[kind |-> "map", doc |-> d] : d \in Docs}

Unread == [kind |-> "unread", doc |-> << >>]

Init ==
  /\ pc = "start"
  /\ args \in [no_sort : BOOLEAN, output : {"-", "file"}]
  /\ stream = Unread
  /\ yaml_map = << >>
  /\ sections = << >>
  /\ section_names = << >>
  /\ out_parts = << >>
  /\ output_text = None
  /\ stdout = None
  /\ outfile = None
  /\ stderr = << >>
  /\ status = NotReturned
  /\ value = None
  /\ result = << >>

\* main, lines 200-206: the input is read
main_read ==
  /\ pc = "start"
  /\ \E text \in Streams : stream' = text
  /\ pc' = "read"
  /\ UNCHANGED <<args, yaml_map, sections, section_names, out_parts,
                 output_text, stdout, outfile, stderr, status, value, result>>

\* main, lines 207-209: reading raises
main_read_fail ==
  /\ pc = "start"
  /\ stderr' = Append(stderr, Diag("read", None, None))
  /\ status' = <<2>>
  /\ pc' = "done"
  /\ UNCHANGED <<args, stream, yaml_map, sections, section_names, out_parts,
                 output_text, stdout, outfile, value, result>>

\* main, lines 211-212: parse_yaml returns the mapping
main_parse ==
  /\ pc = "read"
  /\ parse_yaml(stream).ok
  /\ yaml_map' = parse_yaml(stream).data
  /\ pc' = "parsed"
  /\ UNCHANGED <<args, stream, sections, section_names, out_parts,
                 output_text, stdout, outfile, stderr, status, value, result>>

\* variant: a parse failure returns the status of a read failure
main_parse_fail_status_2 ==
  /\ pc = "read"
  /\ ~parse_yaml(stream).ok
  /\ stderr' = Append(stderr, Diag("parse", None, None))
  /\ status' = <<2>>
  /\ pc' = "done"
  /\ UNCHANGED <<args, stream, yaml_map, sections, section_names, out_parts,
                 output_text, stdout, outfile, value, result>>

\* main, lines 213-215: parse_yaml raises
main_parse_fail ==
  /\ pc = "read"
  /\ ~parse_yaml(stream).ok
  /\ stderr' = Append(stderr, Diag("parse", None, None))
  /\ status' = <<3>>
  /\ pc' = "done"
  /\ UNCHANGED <<args, stream, yaml_map, sections, section_names, out_parts,
                 output_text, stdout, outfile, value, result>>

\* main, line 217
main_build ==
  /\ pc = "parsed"
  /\ LET built == build_rows(yaml_map)
     IN  /\ sections' = built.sections
         /\ stderr' = stderr \o built.err
  /\ pc' = "built"
  /\ UNCHANGED <<args, stream, yaml_map, section_names, out_parts,
                 output_text, stdout, outfile, status, value, result>>

\* main, lines 219-233
main_render ==
  /\ pc = "built"
  /\ LET names == order_sections(sections, args.no_sort)
         parts == parts_loop(names, sections, << >>)
     IN  /\ section_names' = names
         /\ out_parts' = parts
         /\ output_text' = join_document(parts)
  /\ pc' = "rendered"
  /\ UNCHANGED <<args, stream, yaml_map, sections, stdout, outfile, stderr,
                 status, value, result>>

\* main, lines 235-240 and 245: the document is written
main_write ==
  /\ pc = "rendered"
  /\ IF args.output = "-"
     THEN stdout' = output_text /\ UNCHANGED outfile
     ELSE outfile' = output_text /\ UNCHANGED stdout
  /\ status' = <<0>>
  /\ pc' = "done"
  /\ UNCHANGED <<args, stream, yaml_map, sections, section_names, out_parts,
                 output_text, stderr, value, result>>

\* main, lines 241-243: writing raises; a file that was opened is left
\* truncated, one that could not be opened is left alone
main_write_fail ==
  /\ pc = "rendered"
  /\ IF args.output = "-"
     THEN UNCHANGED <<stdout, outfile>>
     ELSE outfile' \in {None, << >>} /\ UNCHANGED stdout
  /\ stderr' = Append(stderr, Diag("write", None, None))
  /\ status' = <<4>>
  /\ pc' = "done"
  /\ UNCHANGED <<args, stream, yaml_map, sections, section_names, out_parts,
                 output_text, value, result>>

Next ==
  \/ main_read
  \/ main_read_fail
  \/ main_parse
  \/ main_parse_fail
  \/ main_build
  \/ main_render
  \/ main_write
  \/ main_write_fail

Spec == Init /\ [][Next]_vars

(***************************************************************************)
(* Direct calls of sanitize_code_span on any text or None.                 *)
(***************************************************************************)
InitSanitize ==
  /\ Init
  /\ args = [no_sort |-> FALSE, output |-> "-"]

\* result = [sanitize_code_span(value)] for a chosen value
call_sanitize ==
  /\ pc = "start"
  /\ \E v \in Strs \cup {None} :
       /\ value' = v
       /\ result' = <<sanitize_code_span(v)>>
  /\ pc' = "sanitized"
  /\ UNCHANGED <<args, stream, yaml_map, sections, section_names, out_parts,
                 output_text, stdout, outfile, stderr, status>>

\* the call repeated on its own result
call_sanitize_again ==
  /\ pc = "sanitized"
  /\ result' = Append(result, sanitize_code_span(result[1]))
  /\ pc' = "resanitized"
  /\ UNCHANGED <<args, stream, yaml_map, sections, section_names, out_parts,
                 output_text, stdout, outfile, stderr, status, value>>

NextSanitize == call_sanitize \/ call_sanitize_again

SpecSanitize == InitSanitize /\ [][NextSanitize]_vars

(***************************************************************************)
(* Properties.                                                             *)
(***************************************************************************)
\* build_rows has returned
Built == pc \in {"built", "rendered"} \/ (pc = "done" /\ status \in {<<0>>, <<4>>})

\* the document has been assembled
Rendered == pc = "rendered" \/ (pc = "done" /\ status \in {<<0>>, <<4>>})

\* all rows of all sections
AllRows == Concat([i \in 1..Len(sections) |-> sections[i].rows])

\* positions (i, j) of the method entries of the document whose path's
\* methods value is a mapping and whose metadata is a mapping
MappingEntries ==
  UNION { { <<i, j>> : j \in {n \in 1..Len(yaml_map[i].meta.methods.items) :
                                yaml_map[i].meta.methods.items[n].meta.kind = "map"} } :
          i \in {n \in 1..Len(yaml_map) :
                   /\ yaml_map[n].meta.kind = "map"
                   /\ yaml_map[n].meta.methods.kind = "map"} }

EntryKey(ij) == yaml_map[ij[1]].meta.methods.items[ij[2]].key

RowsFor(path, method) ==
  Cardinality({k \in 1..Len(AllRows) :
                 AllRows[k].path = path /\ AllRows[k].method = method})

\* whether the rows are exactly the rows of the entries in E: as many rows
\* as entries, and for every path and upper-cased method as many rows as
\* entries of that path whose key upper-cases to that method
RowsMatch(E) ==
  /\ Len(AllRows) = Cardinality(E)
  /\ \A ij \in E :
       RowsFor(yaml_map[ij[1]].path, Upper(EntryKey(ij))) =
         Cardinality({e \in E : /\ e[1] = ij[1]
                                /\ Upper(EntryKey(e)) = Upper(EntryKey(ij))})
  /\ \A k \in 1..Len(AllRows) :
       \E ij \in E : /\ yaml_map[ij[1]].path = AllRows[k].path
                     /\ Upper(EntryKey(ij)) = AllRows[k].method

\* C1 as stated: build_rows produces exactly one row for each (path, method)
\* entry whose path's methods value is a mapping and whose method metadata
\* is a mapping, and no other rows.
C1_AsStated == Built => RowsMatch(MappingEntries)

\* C1 (amended): build_rows produces exactly one row for each (path, method)
\* entry whose method key is not null, whose path's methods value is a
\* mapping and whose method metadata is a mapping, and no other rows; every
\* row lies in exactly one section's list, so the row count is the sum of
\* the sections' row counts.
C1_OneRowPerEntry ==
  Built => RowsMatch({ij \in MappingEntries : EntryKey(ij) # None})

C1_Witness ==
  /\ Built
  /\ Len(AllRows) = 1
  /\ Cardinality(MappingEntries) = 2
  /\ \E ij \in MappingEntries : EntryKey(ij) = None

\* index of a path in the document
PathIndex(path) == CHOOSE i \in 1..Len(yaml_map) : yaml_map[i].path = path

\* C8: the section that holds a row is the one named by the section value
\* of the row's path, or "Uncategorized" when that value is absent or
\* empty; all rows of one path lie in one section, and no two section lists
\* carry the same name.
C8_SectionFromPath ==
  Built =>
    /\ \A i \in 1..Len(sections) : \A k \in 1..Len(sections[i].rows) :
         LET r == sections[i].rows[k]
         IN  /\ \E n \in 1..Len(yaml_map) : yaml_map[n].path = r.path
             /\ LET declared == yaml_map[PathIndex(r.path)].meta.section
                IN  IF declared = None \/ declared = << >>
                    THEN sections[i].name = S_Uncategorized
                    ELSE sections[i].name = declared
    /\ \A i, j \in 1..Len(sections) :
         (\E k \in 1..Len(sections[i].rows) : \E l \in 1..Len(sections[j].rows) :
            sections[i].rows[k].path = sections[j].rows[l].path) => i = j
    /\ \A i, j \in 1..Len(sections) : sections[i].name = sections[j].name => i = j

C8_Witness ==
  /\ Built
  /\ Len(sections) >= 2
  /\ \E i \in 1..Len(sections) :
       /\ sections[i].name = S_Uncategorized
       /\ Len(sections[i].rows) >= 2
       /\ sections[i].rows[1].path = sections[i].rows[2].path
       /\ sections[i].rows[1].method # sections[i].rows[2].method

\* diagnostics on the error stream that report the path as skipped
PathDiagnostics(path) ==
  Cardinality({k \in 1..Len(stderr) :
                 stderr[k].what = "path" /\ stderr[k].path = path})

\* C4 as stated: every path whose methods field is present (and not null)
\* but is not a mapping contributes zero rows and causes one diagnostic for
\* that path; the run returns 0 when no read, parse or write failure occurs.
C4_AsStated ==
  /\ Built =>
       \A i \in 1..Len(yaml_map) :
         (/\ yaml_map[i].meta.kind = "map"
          /\ yaml_map[i].meta.methods.kind \in {"str", "list"})
         => /\ \A k \in 1..Len(AllRows) : AllRows[k].path # yaml_map[i].path
            /\ PathDiagnostics(yaml_map[i].path) = 1
  /\ (pc = "done" /\ \A k \in 1..Len(stderr) :
                       stderr[k].what \notin {"read", "parse", "write"})
       => status = <<0>>

\* the fatal diagnostics printed so far
Fatal(what) == \E k \in 1..Len(stderr) : stderr[k].what = what

\* C5: main returns 2 exactly when reading fails, 3 exactly when parsing
\* fails (the top-level value not being a mapping included), 4 exactly when
\* writing fails and 0 otherwise, after the document went to the
\* destination; a run that ends with 2 or 3 has written nothing to
\* standard output or to the output file.
C5_ExitStatus ==
  /\ pc # "done" => status = NotReturned
  /\ pc = "done" =>
       /\ status \in {<<0>>, <<2>>, <<3>>, <<4>>}
       /\ status = <<2>> <=> stream = Unread
       /\ status = <<3>> <=> (stream # Unread /\ stream.kind # "map")
       /\ status = <<4>> <=> Fatal("write")
       /\ status = <<0>> <=>
            output_text # None /\
            (IF args.output = "-" THEN stdout = output_text /\ outfile = None
                                  ELSE outfile = output_text /\ stdout = None)
       /\ status \in {<<2>>, <<3>>} => stdout = None /\ outfile = None
       /\ Cardinality({w \in {"read", "parse", "write"} : Fatal(w)})
            = IF status = <<0>> THEN 0 ELSE 1

C5_Witness ==
  /\ pc = "done"
  /\ status = <<3>>
  /\ stream.kind = "other"
  /\ stdout = None
  /\ outfile = None

IsText(part) == part # << >>

\* the rendered sections among out_parts, in document order
SectionParts == SelectSeq(out_parts, IsText)

IsPrefix(a, b) == Len(a) <= Len(b) /\ SubSeq(b, 1, Len(a)) = a

\* heading k of the document is the heading of section_names[k]
HeadingsAre(names) ==
  /\ Len(SectionParts) = Len(names)
  /\ \A k \in 1..Len(names) :
       IsPrefix(S_HeadingPrefix \o names[k] \o <<NEWLINE>>, SectionParts[k])

SectionNamed(name) == CHOOSE i \in 1..Len(sections) : sections[i].name = name

\* position in the document of the first path that gave a row to a section
FirstEncounter(name) ==
  LET rows == sections[SectionNamed(name)].rows
      at == {PathIndex(rows[k].path) : k \in 1..Len(rows)}
  IN  CHOOSE i \in at : \A j \in at : i <= j

\* C7: without the no-sort option the section headings are in strictly
\* increasing code-point order of section name; with it they are in the
\* order in which each section name was first encountered while building
\* rows.  Either way every section has one heading.
C7_SectionOrder ==
  Rendered =>
    /\ HeadingsAre(section_names)
    /\ {section_names[k] : k \in 1..Len(section_names)}
         = {sections[i].name : i \in 1..Len(sections)}
    /\ Len(section_names) = Len(sections)
    /\ \A k, l \in 1..Len(section_names) :
         k < l =>
           IF args.no_sort
           THEN FirstEncounter(section_names[k]) < FirstEncounter(section_names[l])
           ELSE StrLess(section_names[k], section_names[l])

C7_Witness ==
  /\ Rendered
  /\ args.no_sort
  /\ Len(section_names) >= 2
  /\ StrLess(section_names[2], section_names[1])
  /\ HeadingsAre(section_names)

Listed(m) == \E i \in 1..Len(METHOD_ORDER) : METHOD_ORDER[i] = m

\* the order of the claim on two rows, the first coming before the second
InClaimedOrder(r1, r2) ==
  IF r1.path # r2.path THEN StrLess(r1.path, r2.path)
  ELSE /\ Listed(r2.method) => Listed(r1.method)
       /\ (Listed(r1.method) /\ Listed(r2.method))
            => OrderIndex(r1.method) <= OrderIndex(r2.method)
       /\ (~Listed(r1.method) /\ ~Listed(r2.method))
            => (r1.method = r2.method \/ StrLess(r1.method, r2.method))

\* rows of a sequence that share the path and method of r, in order
SameKeyRows(rows, r) ==
  LET Same(x) == x.path = r.path /\ x.method = r.method
  IN  SelectSeq(rows, Same)

\* the data rows of the rendered section k are the rows out, in that order
RenderedAs(k, out) ==
  SectionParts[k] = render_rows(section_names[k], out)

C2_AsStated ==
  (Rendered /\ args.no_sort) =>
    /\ Len(SectionParts) = Len(section_names)
    /\ \A k \in 1..Len(section_names) :
         RenderedAs(k, rows_of(sections, section_names[k]))

\* C3 as stated: the document is the rendered sections with exactly one
\* blank line between consecutive sections, and one trailing newline.
C3_AsStated ==
  Rendered =>
    output_text =
      Join(<<NEWLINE, NEWLINE>>,
           [k \in 1..Len(section_names) |->
              render_section(section_names[k],
                             rows_of(sections, section_names[k]))])
      \o <<NEWLINE>>

\* C9: the result of sanitize_code_span has the length of its argument,
\* holds U+2032 wherever the argument holds a backtick and the argument's
\* code point everywhere else, so it holds no backtick; None gives the
\* empty string; sanitizing the result gives the result again.
C9_Sanitize ==
  /\ pc \in {"sanitized", "resanitized"} =>
       /\ \A i \in 1..Len(result[1]) : result[1][i] # BACKTICK
       /\ value = None => result[1] = << >>
       /\ value # None =>
            /\ Len(result[1]) = Len(value)
            /\ \A i \in 1..Len(value) :
                 result[1][i] = IF value[i] = BACKTICK THEN PRIME ELSE value[i]
  /\ pc = "resanitized" => result[2] = result[1]

C9_Witness ==
  /\ pc = "resanitized"
  /\ value # None
  /\ Count(BACKTICK, value) >= 2
  /\ Count(BACKTICK, value) < Len(value)
  /\ Count(PRIME, result[2]) >= 2

RECURSIVE Split(_, _)
\* text.split(chr(c))
Split(text, c) ==
  IF \E i \in 1..Len(text) : text[i] = c
  THEN LET at == CHOOSE i \in 1..Len(text) :
                   text[i] = c /\ \A j \in 1..(i - 1) : text[j] # c
       IN  <<SubSeq(text, 1, at - 1)>> \o Split(SubSeq(text, at + 1, Len(text)), c)
  ELSE <<text>>

\* the data rows of a rendered section: its lines after the heading, the
\* blank line, the header row and the delimiter row
DataLines(part) == LET lines == Split(part, NEWLINE) IN SubSeq(lines, 5, Len(lines))

\* the text of a cell between two separators
Padded(cell) == <<32>> \o cell \o <<32>>

Plain(text) == text = None \/ \A i \in 1..Len(text) : text[i] \notin {PIPE, NEWLINE}

\* no field of the row and no part of the heading holds | or a newline
PlainRow(r) ==
  /\ Plain(r.path) /\ Plain(r.method) /\ Plain(r.owner) /\ Plain(r.endpoint_name)
  /\ Plain(r.backend_class) /\ Plain(r.locations) /\ Plain(r.notes)

\* the line is a table row of nine cells holding the fields of r in the
\* column order of the header
IsRowOf(line, r) ==
  LET cells == Split(line, PIPE)
  IN  /\ Count(PIPE, line) = Count(PIPE, HEADER_ROW)
      /\ Len(cells) = 11
      /\ cells[1] = << >> /\ cells[11] = << >>
      /\ cells[2] = Padded(code_span(sanitize_code_span(r.path)))
      /\ cells[3] = Padded(code_span(r.method))
      /\ cells[4] = Padded(IF r.region_aware THEN S_Yes ELSE S_No)
      /\ cells[5] = Padded(IF r.absolute THEN S_Yes ELSE S_No)
      /\ cells[6] = Padded(IF r.owner \in {None, << >>} THEN << >>
                           ELSE code_span(sanitize_code_span(r.owner)))
      /\ cells[7] = Padded(IF r.endpoint_name \in {None, << >>} THEN << >>
                           ELSE code_span(sanitize_code_span(r.endpoint_name)))
      /\ cells[8] = Padded(IF r.backend_class \in {None, << >>} THEN << >>
                           ELSE code_span(sanitize_code_span(r.backend_class)))
      /\ cells[9] = Padded(IF r.locations \in {None, << >>} THEN << >>
                           ELSE code_span(r.locations))
      /\ cells[10] = Padded(r.notes)

\* C10 as stated: every data row has as many | as the header row and is on
\* a single line, whatever the strings in its fields.
C10_AsStated ==
  Rendered =>
    \A k \in 1..Len(section_names) :
      LET rows == sort_rows(rows_of(sections, section_names[k]))
      IN  Plain(section_names[k]) =>
            /\ Len(DataLines(SectionParts[k])) = Len(rows)
            /\ \A i \in 1..Len(rows) :
                 Count(PIPE, DataLines(SectionParts[k])[i]) = Count(PIPE, HEADER_ROW)

\* C10 (amended): every data row whose path, method, owner, endpoint name,
\* class, locations and notes hold neither | nor a newline has exactly
\* nine cells in the column order of the header (as many | as the header
\* row) and is on a single line; notes are copied verbatim and the other
\* texts only have their backticks replaced.
C10_NineCells ==
  Rendered =>
    \A k \in 1..Len(section_names) :
      LET rows == sort_rows(rows_of(sections, section_names[k]))
      IN  (Plain(section_names[k]) /\ \A i \in 1..Len(rows) : PlainRow(rows[i])) =>
            /\ Len(DataLines(SectionParts[k])) = Len(rows)
            /\ \A i \in 1..Len(rows) : IsRowOf(DataLines(SectionParts[k])[i], rows[i])

C10_Witness ==
  /\ Rendered
  /\ Len(section_names) = 1
  /\ Plain(section_names[1])
  /\ LET rows == rows_of(sections, section_names[1])
     IN  /\ Len(rows) = 1
         /\ PlainRow(rows[1])
         /\ Count(BACKTICK, rows[1].notes) >= 1
         /\ IsRowOf(DataLines(SectionParts[1])[1], rows[1])

====
